---- MODULE Spec2Model ----
(***************************************************************************)
(* Model of the analytics service, src/analytics/app.py: the /analyze      *)
(* handler, the in-memory HISTORY store it updates and the rule-based      *)
(* frequency scorer.  Time is in whole seconds.  The Flask development     *)
(* server serves each request on its own thread, so a request is a         *)
(* sequence of steps on the shared store that may interleave with the      *)
(* steps of another request.                                               *)
(***************************************************************************)
EXTENDS Integers, Sequences, FiniteSets, TLC

\* ---------------------------------------------------------------- bounds
\* number of requests received in a run that serves one request at a time
MaxCalls == 4
\* number of requests received in a run of the threaded server
MaxRacing == 2
\* largest count handed to the scorer on its own
MaxCount == 6
\* number of requests received in a run whose requests name a doctor
MaxDocCalls == 2
\* subdivisions of a second in the timedeltas given to the test of line 29
TicksPerSecond == 10
\* number of worker threads serving requests at the same time
NumThreads == 2

\* ------------------------------------------------------ program constants
\* the retention window of line 29, in seconds
Window == 3600
\* timedelta.seconds is the seconds component of a normalised timedelta:
\* days may be negative, 0 <= seconds < SecondsPerDay
SecondsPerDay == 86400

\* ------------------------------------------------------------ input sets
Threads == 1..NumThreads

\* seconds that pass between two consecutive readings of the clock
Deltas == {0, 1, 3599, 86401}

\* the same between the requests of the threaded server
RacingDeltas == {0, 1, 3600}

\* the Python None
None == "<None>"

\* values a request gives to patientHash
JsonValues == {"p1", "p2"}

\* request bodies: one that does not parse, one that parses to a JSON array,
\* and JSON objects with or without the patientHash field
InvalidBody == [kind |-> "invalid"]
ArrayBody == [kind |-> "array"]
ObjectBodies ==
    {[kind |-> "object", fields |-> f] :
        f \in UNION {[D -> JsonValues] : D \in SUBSET {"patientHash"}}}
Bodies == {InvalidBody, ArrayBody} \cup ObjectBodies

\* values a request gives to doctorAddress
DoctorValues == {"d1", "d2"}

\* JSON objects with or without patientHash and with or without doctorAddress
DoctorBodies ==
    {[kind |-> "object", fields |-> f] :
        f \in {g \in UNION {[D -> JsonValues \cup DoctorValues] :
                              D \in SUBSET {"patientHash", "doctorAddress"}} :
                 /\ "patientHash" \in DOMAIN g => g["patientHash"] \in JsonValues
                 /\ "doctorAddress" \in DOMAIN g
                        => g["doctorAddress"] \in DoctorValues}}

VARIABLES
    patients,   \* HISTORY['patients']: key -> list of timestamps
    doctors,    \* HISTORY['doctors']
    clock,      \* the wall clock at its latest reading
    pc,         \* per thread: the line its request is at
    data,       \* per thread: local data, the parsed body
    p_hash,     \* per thread: local p_hash
    d_addr,     \* per thread: local d_addr
    now,        \* per thread: local now
    pruned,     \* per thread: the list built by the comprehension of line 29,
                \* kept until the response as the list this request stored
    responses,  \* the responses sent so far, in order of completion
    delta,      \* a timedelta now - t, in ticks, given to the test of line 29
    keep        \* what the test of line 29 made of delta

vars == <<patients, doctors, clock, pc, data, p_hash, d_addr, now, pruned,
          responses, delta, keep>>

\* ------------------------------------------------------------- helpers

\* data.get(key, "p1"): a default other than None
DataGetDefault(body, key) ==
    IF key \in DOMAIN body.fields THEN body.fields[key] ELSE "p1"

\* data.get(key) on the parsed JSON object: None when the key is missing
DataGet(body, key) ==
    IF key \in DOMAIN body.fields THEN body.fields[key] ELSE None

\* rounding to the nearest second instead of taking the seconds component
TimedeltaSecondsRounded(d) ==
    ((d + TicksPerSecond \div 2) \div TicksPerSecond) % SecondsPerDay

\* .seconds of a timedelta of d ticks: the timedelta is normalised to days,
\* seconds and a sub-second part, and .seconds is the seconds part alone
TimedeltaSeconds(d) == (d \div TicksPerSecond) % SecondsPerDay

\* the condition of the comprehension of line 29 on a timedelta of d ticks
RetainedDelta(d) == TimedeltaSeconds(d) < Window

\* (a - b).seconds for two datetimes a and b
ElapsedSeconds(a, b) == (a - b) % SecondsPerDay

\* the subtraction of line 29 the other way round: (t - now).seconds
RetainedReversed(n, t) == ElapsedSeconds(t, n) < Window

\* the condition of the comprehension of line 29
Retained(n, t) == ElapsedSeconds(n, t) < Window

\* [t for t in s if (n - t).seconds < 3600]
RECURSIVE Prune(_, _)
Prune(s, n) ==
    IF s = <<>> THEN <<>>
    ELSE IF Retained(n, Head(s)) THEN <<Head(s)>> \o Prune(Tail(s), n)
         ELSE Prune(Tail(s), n)

\* the high tier starting one count early: count >= 3
RiskScoreEarly(count) ==
    IF count >= 3 THEN 8
    ELSE IF count > 1 THEN 3
    ELSE 0

\* lines 35-43: the risk score, in tenths
RiskScore(count) ==
    IF count > 3 THEN 8
    ELSE IF count > 1 THEN 3
    ELSE 0

\* lines 36-43: the reason, the f-string as its pieces
Reason(count) ==
    IF count > 3 THEN <<"High frequency: ", count, " prescriptions in last hour.">>
    ELSE IF count > 1 THEN <<"Moderate frequency.">>
    ELSE <<"Normal usage pattern.">>

\* lines 45-49: the JSON response, with the request it answers
Jsonify(body, key, n, count) ==
    [status |-> 200, body |-> body, key |-> key, now |-> n,
     risk_score |-> RiskScore(count), reason |-> Reason(count),
     count_last_hour |-> count]

\* the response to a request whose handler raised
ErrorResponse(body, code) == [status |-> code, body |-> body]

\* requests received so far
Received == Len(responses) + Cardinality({th \in Threads : pc[th] # "idle"})

\* ------------------------------------------------------------- Init

InitStore ==
    /\ patients = << >>
    /\ doctors = << >>
    /\ clock = 0
    /\ pc = [th \in Threads |-> "idle"]
    /\ data = [th \in Threads |-> InvalidBody]
    /\ p_hash = [th \in Threads |-> None]
    /\ d_addr = [th \in Threads |-> None]
    /\ now = [th \in Threads |-> 0]
    /\ pruned = [th \in Threads |-> <<>>]
    /\ responses = <<>>

Init ==
    /\ InitStore
    /\ delta = 0
    /\ keep = "untested"

\* ------------------------------------------------------------- actions

\* a handler that swallows the parse error and goes on with an empty dict:
\* the entry of the None key is created
BadJsonSilent(th, body, limit) ==
    /\ pc[th] = "idle"
    /\ Received < limit
    /\ body.kind = "invalid"
    /\ patients' = [k \in DOMAIN patients \cup {None} |->
                        IF k \in DOMAIN patients THEN patients[k] ELSE <<>>]
    /\ responses' = Append(responses, ErrorResponse(body, 400))
    /\ UNCHANGED <<doctors, clock, pc, data, p_hash, d_addr, now, pruned,
                   delta, keep>>

\* lines 17-18 on a body that is not valid JSON: request.json raises
\* BadRequest and the handler ends before it touches HISTORY
BadJson(th, body, limit) ==
    /\ pc[th] = "idle"
    /\ Received < limit
    /\ body.kind = "invalid"
    /\ responses' = Append(responses, ErrorResponse(body, 400))
    /\ UNCHANGED <<patients, doctors, clock, pc, data, p_hash, d_addr, now,
                   pruned, delta, keep>>

\* lines 17-18 on a body that parses to something that is not an object:
\* data.get raises AttributeError
NotAnObject(th, body, limit) ==
    /\ pc[th] = "idle"
    /\ Received < limit
    /\ body.kind = "array"
    /\ responses' = Append(responses, ErrorResponse(body, 500))
    /\ UNCHANGED <<patients, doctors, clock, pc, data, p_hash, d_addr, now,
                   pruned, delta, keep>>

\* line 18 reading the wrong field: p_hash = data.get('doctorAddress')
BeginDoctorKey(th, body, d, limit) ==
    /\ pc[th] = "idle"
    /\ Received < limit
    /\ body.kind = "object"
    /\ data' = [data EXCEPT ![th] = body]
    /\ clock' = clock + d
    /\ p_hash' = [p_hash EXCEPT ![th] = DataGet(body, "doctorAddress")]
    /\ d_addr' = [d_addr EXCEPT ![th] = DataGet(body, "doctorAddress")]
    /\ now' = [now EXCEPT ![th] = clock']
    /\ pc' = [pc EXCEPT ![th] = "check"]
    /\ UNCHANGED <<patients, doctors, pruned, responses, delta, keep>>

\* the doctor-side tracking the comment of line 9 announces:
\* HISTORY['doctors'].setdefault(d_addr, []).append(now)
BeginTrackDoctor(th, body, d, limit) ==
    /\ pc[th] = "idle"
    /\ Received < limit
    /\ body.kind = "object"
    /\ data' = [data EXCEPT ![th] = body]
    /\ clock' = clock + d
    /\ p_hash' = [p_hash EXCEPT ![th] = DataGet(body, "patientHash")]
    /\ d_addr' = [d_addr EXCEPT ![th] = DataGet(body, "doctorAddress")]
    /\ now' = [now EXCEPT ![th] = clock']
    /\ doctors' = [k \in DOMAIN doctors \cup {d_addr'[th]} |->
                      IF k \in DOMAIN doctors /\ k # d_addr'[th] THEN doctors[k]
                      ELSE IF k \in DOMAIN doctors
                           THEN Append(doctors[k], clock')
                           ELSE <<clock'>>]
    /\ pc' = [pc EXCEPT ![th] = "check"]
    /\ UNCHANGED <<patients, pruned, responses, delta, keep>>

\* lines 17-21 on a JSON object: read patientHash and doctorAddress, read
\* the clock
Begin(th, body, d, limit) ==
    /\ pc[th] = "idle"
    /\ Received < limit
    /\ body.kind = "object"
    /\ data' = [data EXCEPT ![th] = body]
    /\ clock' = clock + d
    /\ p_hash' = [p_hash EXCEPT ![th] = DataGet(body, "patientHash")]
    /\ d_addr' = [d_addr EXCEPT ![th] = DataGet(body, "doctorAddress")]
    /\ now' = [now EXCEPT ![th] = clock']
    /\ pc' = [pc EXCEPT ![th] = "check"]
    /\ UNCHANGED <<patients, doctors, pruned, responses, delta, keep>>

\* line 24: if p_hash not in HISTORY['patients']
Check(th) ==
    /\ pc[th] = "check"
    /\ pc' = [pc EXCEPT ![th] =
                IF p_hash[th] \notin DOMAIN patients THEN "create" ELSE "append"]
    /\ UNCHANGED <<patients, doctors, clock, data, p_hash, d_addr, now,
                   pruned, responses, delta, keep>>

\* HISTORY['patients'] = {p_hash: []}: the whole mapping is replaced
CreateReset(th) ==
    /\ pc[th] = "create"
    /\ patients' = [k \in {p_hash[th]} |-> <<>>]
    /\ pc' = [pc EXCEPT ![th] = "append"]
    /\ UNCHANGED <<doctors, clock, data, p_hash, d_addr, now, pruned,
                   responses, delta, keep>>

\* line 25: HISTORY['patients'][p_hash] = []
Create(th) ==
    /\ pc[th] = "create"
    /\ patients' = [k \in DOMAIN patients \cup {p_hash[th]} |->
                        IF k = p_hash[th] THEN <<>> ELSE patients[k]]
    /\ pc' = [pc EXCEPT ![th] = "append"]
    /\ UNCHANGED <<doctors, clock, data, p_hash, d_addr, now, pruned,
                   responses, delta, keep>>

\* line 26: HISTORY['patients'][p_hash].append(now)
AppendNow(th) ==
    /\ pc[th] = "append"
    /\ patients' = [patients EXCEPT ![p_hash[th]] = Append(@, now[th])]
    /\ pc' = [pc EXCEPT ![th] = "prune"]
    /\ UNCHANGED <<doctors, clock, data, p_hash, d_addr, now, pruned,
                   responses, delta, keep>>

\* line 29, right-hand side: the comprehension builds the pruned list
PruneCompute(th) ==
    /\ pc[th] = "prune"
    /\ pruned' = [pruned EXCEPT ![th] = Prune(patients[p_hash[th]], now[th])]
    /\ pc' = [pc EXCEPT ![th] = "replace"]
    /\ UNCHANGED <<patients, doctors, clock, data, p_hash, d_addr, now,
                   responses, delta, keep>>

\* an eviction added to line 29: an identifier whose pruned list is empty
\* loses its entry
PruneStoreEvict(th) ==
    /\ pc[th] = "replace"
    /\ patients' = IF pruned[th] = <<>>
                   THEN [k \in DOMAIN patients \ {p_hash[th]} |-> patients[k]]
                   ELSE [patients EXCEPT ![p_hash[th]] = pruned[th]]
    /\ pc' = [pc EXCEPT ![th] = "count"]
    /\ UNCHANGED <<doctors, clock, data, p_hash, d_addr, now, pruned,
                   responses, delta, keep>>

\* line 29 with += for =: the pruned list is added to the stored one
PruneStoreExtend(th) ==
    /\ pc[th] = "replace"
    /\ patients' = [patients EXCEPT ![p_hash[th]] = @ \o pruned[th]]
    /\ pc' = [pc EXCEPT ![th] = "count"]
    /\ UNCHANGED <<doctors, clock, data, p_hash, d_addr, now, pruned,
                   responses, delta, keep>>

\* line 29, assignment: the pruned list replaces the stored one
PruneStore(th) ==
    /\ pc[th] = "replace"
    /\ patients' = [patients EXCEPT ![p_hash[th]] = pruned[th]]
    /\ pc' = [pc EXCEPT ![th] = "count"]
    /\ UNCHANGED <<doctors, clock, data, p_hash, d_addr, now, pruned,
                   responses, delta, keep>>

\* lines 33-49: count the stored list, score the count, send the response
Respond(th) ==
    /\ pc[th] = "count"
    /\ LET count == Len(patients[p_hash[th]])
       IN responses' = Append(responses,
                              Jsonify(data[th], p_hash[th], now[th], count))
    /\ pc' = [pc EXCEPT ![th] = "idle"]
    /\ data' = [data EXCEPT ![th] = InvalidBody]
    /\ p_hash' = [p_hash EXCEPT ![th] = None]
    /\ d_addr' = [d_addr EXCEPT ![th] = None]
    /\ now' = [now EXCEPT ![th] = 0]
    /\ pruned' = [pruned EXCEPT ![th] = <<>>]
    /\ UNCHANGED <<patients, doctors, clock, delta, keep>>

\* a step of the request that thread th serves
Step(th) ==
    \/ Check(th)
    \/ Create(th)
    \/ AppendNow(th)
    \/ PruneCompute(th)
    \/ PruneStore(th)
    \/ Respond(th)

\* a request has named the patient p
Named(p) ==
    \/ p \in DOMAIN patients
    \/ \E th \in Threads : pc[th] # "idle" /\ p_hash[th] = p

\* the handler only hashes and compares patient names, so they are
\* interchangeable: the first name a run uses is "p1"
NamesInOrder(body) ==
    (/\ body.kind = "object"
     /\ "patientHash" \in DOMAIN body.fields
     /\ body.fields["patientHash"] = "p2") => Named("p1")

\* a request arrives and the first free thread th serves it; limit bounds
\* the number of requests of the run, deltas gives the time since the
\* latest reading of the clock
Receive(th, limit, deltas) ==
    /\ \A u \in Threads : u < th => pc[u] # "idle"
    /\ \E body \in {b \in Bodies : NamesInOrder(b)} :
        \/ BadJson(th, body, limit)
        \/ NotAnObject(th, body, limit)
        \/ \E d \in deltas : Begin(th, body, d, limit)

\* the threaded server: requests interleave line by line
Next == \E th \in Threads : Receive(th, MaxRacing, RacingDeltas) \/ Step(th)

Spec == Init /\ [][Next]_vars

\* no request is being served
AllIdle == \A th \in Threads : pc[th] = "idle"

\* one request at a time: a request is received only when none is being served
NextSeq == \E th \in Threads : (AllIdle /\ Receive(th, MaxCalls, Deltas)) \/ Step(th)

SeqSpec == Init /\ [][NextSeq]_vars

\* lines 35-49 on a count of its own: the scorer is total over the counts
Score(count) ==
    /\ Len(responses) < MaxCalls
    /\ responses' = Append(responses,
           Jsonify([kind |-> "object", fields |-> [f \in {"patientHash"} |-> "p1"]],
                   "p1", clock, count))
    /\ UNCHANGED <<patients, doctors, clock, pc, data, p_hash, d_addr, now,
                   pruned, delta, keep>>

NextScore == \E count \in 0..MaxCount : Score(count)

ScoreSpec == Init /\ [][NextScore]_vars

\* a request that may name a doctor arrives while none is being served
ReceiveDoc(th) ==
    /\ AllIdle
    /\ \A u \in Threads : u < th => pc[u] # "idle"
    /\ \E body \in {b \in DoctorBodies : NamesInOrder(b)} : \E d \in Deltas :
          Begin(th, body, d, MaxDocCalls)

\* one request at a time, with or without doctorAddress
NextDoc == \E th \in Threads : ReceiveDoc(th) \/ Step(th)

DocSpec == Init /\ [][NextDoc]_vars

\* the timedeltas of at least zero and less than one day, in ticks
DayDeltas == 0..(SecondsPerDay * TicksPerSecond - 1)

InitDelta ==
    /\ InitStore
    /\ delta \in DayDeltas
    /\ keep = "untested"

\* line 29: the test (now - t).seconds < 3600 on the timedelta delta
TestDelta ==
    /\ keep = "untested"
    /\ keep' = IF RetainedDelta(delta) THEN "kept" ELSE "pruned"
    /\ UNCHANGED <<patients, doctors, clock, pc, data, p_hash, d_addr, now,
                   pruned, responses, delta>>

DeltaSpec == InitDelta /\ [][TestDelta]_vars

TypeOK ==
    /\ DOMAIN patients \subseteq {None, "p1", "p2"}
    /\ clock \in Nat
    /\ Len(responses) <= MaxCalls

\* ------------------------------------------------------------ properties

Keys == {None} \cup JsonValues

\* the positions of the successful responses for key k
OkIdx(k) == {i \in 1..Len(responses) :
                responses[i].status = 200 /\ responses[i].key = k}

\* the position of response i among the successful responses for its key
Rank(i, k) == Cardinality({j \in OkIdx(k) : j <= i})

\* the first successful response for key k
First(k) == CHOOSE i \in OkIdx(k) : \A j \in OkIdx(k) : i <= j

\* the latest successful response for key k
Last(k) == CHOOSE i \in OkIdx(k) : \A j \in OkIdx(k) : j <= i

\* the threads serving a request for key k
Serving(k) == {th \in Threads : pc[th] # "idle" /\ p_hash[th] = k}

\* s is in non-decreasing order
Ascending(s) == \A i, j \in 1..Len(s) : i < j => s[i] <= s[j]

\* C1: when requests are served one at a time, the count a call at time T'
\* returns is the number of calls for the same identifier, itself included,
\* made at a time T with T' - T < 3600: an event is counted iff it is less
\* than one hour old, whatever the gap.
C1_PruningCorrectness ==
    \A k \in Keys : \A i \in OkIdx(k) :
        responses[i].count_last_hour =
            Cardinality({j \in OkIdx(k) :
                j <= i /\ responses[i].now - responses[j].now < Window})

\* C2: no lost update: once all the requests for an identifier that read the
\* same instant have completed, and no other request was made for it, the
\* stored sequence holds one entry per request and the call that finished
\* last returned that number.
C2_NoLostUpdate ==
    \A k \in Keys :
        (/\ OkIdx(k) # {}
         /\ Serving(k) = {}
         /\ \A i, j \in OkIdx(k) : responses[i].now = responses[j].now)
        => /\ Len(patients[k]) = Cardinality(OkIdx(k))
           /\ responses[Last(k)].count_last_hour = Cardinality(OkIdx(k))

\* C3: every successful response reports count_last_hour >= 1, under every
\* interleaving.
C3_CountAtLeastOne ==
    \A i \in 1..Len(responses) :
        responses[i].status = 200 => responses[i].count_last_hour >= 1

\* C4: served one at a time from an empty store, the calls for an identifier
\* that lie less than 3600 seconds after the first one return 1, 2, ..., N.
C4_CountMonotonicity ==
    \A k \in Keys : \A i \in OkIdx(k) :
        responses[i].now - responses[First(k)].now < Window
            => responses[i].count_last_hour = Rank(i, k)

C4_Witness ==
    \E k \in Keys :
        /\ Cardinality(OkIdx(k)) = 4
        /\ responses[Last(k)].count_last_hour = 4
        /\ responses[Last(k)].now > responses[First(k)].now

\* the key of the request whose thread th takes the step
ActingKey(th) == IF pc[th] = "idle" THEN p_hash'[th] ELSE p_hash[th]

\* the threads that take the step
Acting == {th \in Threads : pc'[th] # pc[th]}

\* the entry of key k, <<"absent">> when there is none
Entry(h, k) == IF k \in DOMAIN h THEN <<"present", h[k]>> ELSE <<"absent">>

\* C5: a step of a request for identifier A changes the entry of no other
\* identifier B (no append, prune, creation or removal) and nothing local to
\* another request, whether or not the requests interleave.
C5_Isolation ==
    [][\A th \in Acting :
          /\ \A k \in Keys :
                k # ActingKey(th) => Entry(patients', k) = Entry(patients, k)
          /\ \A u \in Threads \ {th} :
                /\ pc'[u] = pc[u] /\ p_hash'[u] = p_hash[u]
                /\ now'[u] = now[u] /\ pruned'[u] = pruned[u]]_vars

C5_Witness ==
    \E th, u \in Threads :
        /\ pc[th] = "count" /\ pc[u] = "replace"
        /\ p_hash[th] # p_hash[u]
        /\ patients[p_hash[th]] # <<>> /\ patients[p_hash[u]] # <<>>

\* C6: every count >= 0 falls in exactly one tier and the response carries
\* it: 0.0 and the normal reason for count <= 1, 0.3 and the moderate reason
\* for 2 and 3, 0.8 and the high-frequency reason for count >= 4.
C6_ScorerPartition ==
    \A i \in 1..Len(responses) :
        responses[i].status = 200 =>
            LET r == responses[i]
                c == r.count_last_hour
                normal == r.risk_score = 0 /\ r.reason = <<"Normal usage pattern.">>
                moderate == r.risk_score = 3 /\ r.reason = <<"Moderate frequency.">>
                high == /\ r.risk_score = 8
                        /\ r.reason = <<"High frequency: ", c,
                                        " prescriptions in last hour.">>
            IN /\ c >= 0
               /\ normal <=> c <= 1
               /\ moderate <=> c \in {2, 3}
               /\ high <=> c >= 4

C6_Witness ==
    /\ \E i \in 1..Len(responses) :
          responses[i].count_last_hour = 0 /\ responses[i].risk_score = 0
    /\ \E i \in 1..Len(responses) :
          responses[i].count_last_hour = 3 /\ responses[i].risk_score = 3
    /\ \E i \in 1..Len(responses) :
          responses[i].count_last_hour = 4 /\ responses[i].risk_score = 8

\* C7: after a completed call for an identifier, every stored timestamp t of
\* that identifier has p - t < 3600, p being the now of the latest completed
\* call (its pruning pass) for the identifier.
C7_RetentionWindow ==
    \A k \in Keys :
        OkIdx(k) # {} =>
            \A n \in 1..Len(patients[k]) :
                responses[Last(k)].now - patients[k][n] < Window

\* C8: every stored sequence is in non-decreasing timestamp order in every
\* reachable state.
C8_AscendingOrder ==
    \A k \in DOMAIN patients : Ascending(patients[k])

\* C9: a request whose body does not parse or is not a JSON object ends in
\* an error response and leaves HISTORY as it was: no entry created, nothing
\* appended, nothing pruned.
C9_MalformedLeavesStore ==
    [][(/\ Len(responses') = Len(responses) + 1
        /\ responses'[Len(responses')].body.kind # "object")
       => /\ responses'[Len(responses')].status # 200
          /\ patients' = patients
          /\ doctors' = doctors
          /\ pc' = pc /\ pruned' = pruned /\ now' = now /\ p_hash' = p_hash]_vars

C9_Witness ==
    /\ Len(responses) >= 1
    /\ responses[Len(responses)].status # 200
    /\ \E th \in Threads : pc[th] = "prune" /\ patients[p_hash[th]] # <<>>

\* the body is a JSON object without the patientHash field
LacksHash(body) == body.kind = "object" /\ "patientHash" \notin DOMAIN body.fields

\* C10: a request without patientHash is answered, not rejected; its key is
\* None, shared by all such requests and by no request that names a patient:
\* served one at a time, the n-th such request within an hour of the first
\* returns count n.
C10_MissingIdentifierBucket ==
    \A i \in 1..Len(responses) :
        LET r == responses[i] IN
        /\ LacksHash(r.body) =>
              /\ r.status = 200
              /\ r.key = None
              /\ r.now - responses[First(None)].now < Window
                    => r.count_last_hour = Rank(i, None)
        /\ (r.body.kind = "object" /\ ~LacksHash(r.body)) =>
              r.key = r.body.fields["patientHash"] /\ r.key # None

C10_Witness ==
    /\ Cardinality(OkIdx(None)) = 3
    /\ responses[Last(None)].count_last_hour = 3
    /\ LacksHash(responses[Last(None)].body)
    /\ OkIdx("p1") # {}

\* C11: entries are never deleted: an identifier that is a key of the patient
\* store is a key of it in every later state; the set of keys only grows.
C11_EntriesNeverDeleted ==
    [][DOMAIN patients \subseteq DOMAIN patients']_vars

\* a request is about to count a sequence that has been emptied and the
\* identifier is still a key
C11_Witness ==
    \E th \in Threads :
        /\ pc[th] = "count"
        /\ p_hash[th] \in DOMAIN patients
        /\ patients[p_hash[th]] = <<>>
        /\ Len(responses) >= 1

\* C16: under every interleaving the count_last_hour a call returns, and the
\* tier derived from it, is the length of the pruned sequence that this same
\* call computed and stored.
C16_CountIsOwnPrune ==
    [][\A th \in Threads :
          (pc[th] = "count" /\ pc'[th] = "idle") =>
              LET r == responses'[Len(responses')] IN
              /\ r.count_last_hour = Len(pruned[th])
              /\ r.risk_score = RiskScore(Len(pruned[th]))]_vars

\* the threads whose request for key k has run line 26
Appended(k) ==
    {th \in Threads : pc[th] \in {"prune", "replace", "count"} /\ p_hash[th] = k}

\* the number of requests for key k that have appended the clock value t
AppendedCount(k, t) ==
    Cardinality({i \in OkIdx(k) : responses[i].now = t})
        + Cardinality({th \in Appended(k) : now[th] = t})

\* the number of entries of key k that hold the timestamp t
StoredCount(k, t) ==
    Cardinality({n \in 1..Len(patients[k]) : patients[k][n] = t})

\* C17: no phantom events: in every reachable state each stored timestamp of
\* an identifier is the clock value of a request that has appended for it,
\* stored at most once per such request, so the length of the sequence and
\* every count returned are at most the number of those requests.
C17_NoPhantomEvents ==
    \A k \in DOMAIN patients :
        /\ \A n \in 1..Len(patients[k]) :
              LET t == patients[k][n] IN
              /\ AppendedCount(k, t) >= 1
              /\ StoredCount(k, t) <= AppendedCount(k, t)
        /\ Len(patients[k]) <= Cardinality(OkIdx(k)) + Cardinality(Appended(k))
        /\ \A i \in OkIdx(k) :
              responses[i].count_last_hour
                  <= Cardinality(OkIdx(k)) + Cardinality(Appended(k))

\* two requests for one identifier have both appended at the same instant
\* and both events are stored
C17_Witness ==
    \E k \in DOMAIN patients : \E th, u \in Appended(k) :
        /\ th # u
        /\ now[th] = now[u]
        /\ StoredCount(k, now[th]) = 2

\* the store after the first i requests of the run, computed from the
\* patientHash field and the clock reading of each request alone
RECURSIVE ReplayStore(_)
ReplayStore(i) ==
    IF i = 0 THEN << >>
    ELSE LET h == ReplayStore(i - 1)
             k == DataGet(responses[i].body, "patientHash")
             n == responses[i].now
             old == IF k \in DOMAIN h THEN h[k] ELSE <<>>
         IN [x \in DOMAIN h \cup {k} |->
                IF x = k THEN Prune(Append(old, n), n) ELSE h[x]]

\* the count the i-th request of the run gets, computed the same way
ReplayCount(i) == Len(ReplayStore(i)[DataGet(responses[i].body, "patientHash")])

\* C12: doctorAddress does not interfere: served one at a time, the responses
\* (risk_score, reason, count_last_hour) and the patient history are a
\* function of the patientHash values and the times of the requests alone, so
\* two runs that differ only in doctorAddress agree on them.
C12_DoctorAddressNoInterference ==
    /\ \A i \in 1..Len(responses) :
          /\ responses[i].status = 200
          /\ responses[i].count_last_hour = ReplayCount(i)
          /\ responses[i].risk_score = RiskScore(ReplayCount(i))
          /\ responses[i].reason = Reason(ReplayCount(i))
    /\ AllIdle => patients = ReplayStore(Len(responses))

\* two requests for one patient that name different doctors have been served
C12_Witness ==
    /\ AllIdle
    /\ Len(responses) = 2
    /\ \A i \in {1, 2} : "doctorAddress" \in DOMAIN responses[i].body.fields
    /\ responses[1].body.fields["doctorAddress"]
          # responses[2].body.fields["doctorAddress"]
    /\ responses[1].key = responses[2].key
    /\ responses[2].count_last_hour = 2

\* C13: HISTORY['doctors'] is empty in every reachable state, whatever the
\* doctorAddress of the requests.
C13_DoctorsEmpty == DOMAIN doctors = {}

\* a request that names a doctor has been served
C13_Witness ==
    \E i \in 1..Len(responses) :
        /\ responses[i].status = 200
        /\ "doctorAddress" \in DOMAIN responses[i].body.fields

\* the entries t of s with n - t < 3600, n - t being the signed difference
RECURSIVE SignedPrune(_, _)
SignedPrune(s, n) ==
    IF s = <<>> THEN <<>>
    ELSE IF n - Head(s) < Window THEN <<Head(s)>> \o SignedPrune(Tail(s), n)
         ELSE SignedPrune(Tail(s), n)

\* C14: a call that is not interleaved with another, made on the stored
\* sequence S with the clock reading now, leaves exactly the entries t of
\* S followed by now that have now - t < 3600 as a signed difference, and
\* returns the length of that sequence.
C14_SingleStepEffect ==
    [][\A th \in Threads :
          /\ (pc[th] = "replace" /\ pc'[th] = "count") =>
                patients'[p_hash[th]]
                    = SignedPrune(patients[p_hash[th]], now[th])
          /\ (pc[th] = "count" /\ pc'[th] = "idle") =>
                responses'[Len(responses')].count_last_hour
                    = Len(SignedPrune(patients[p_hash[th]], now[th]))]_vars

\* C15: for every timedelta d with 0 <= d < 1 day, taken at sub-second
\* granularity, the test of line 29 on the whole seconds of d keeps the entry
\* exactly when d < 3600 s at full precision.
C15_TruncationAgrees ==
    keep # "untested" =>
        (keep = "kept" <=> delta < Window * TicksPerSecond)

\* an entry one tick short of 3600 s old has been tested and kept
C15_Witness ==
    /\ delta = Window * TicksPerSecond - 1
    /\ keep = "kept"

====
